---- MODULE Spec2Model ----
(***************************************************************************)
(* A model of the livekit_audio voice-agent pipeline:                      *)
(*   run_llm (src/src/llm.rs)        utterance accumulator + completion    *)
(*                                   streamer                              *)
(*   handle_room_events (livekit.rs) room chat messages -> accumulator     *)
(*   STT / WSClient (stt.rs)         transcription bridge                  *)
(* A Rust String is a sequence of characters; a character is a one-letter  *)
(* TLA+ string, a non-ASCII character is written by its code point         *)
(* ("U+2014" is the em dash).                                              *)
(***************************************************************************)
EXTENDS Integers, Sequences, FiniteSets, TLC

VARIABLES
    text_input,     \* run_llm: items queued on text_input_rx, oldest first
    llm_pc,         \* run_llm: "recv" (awaiting recv), "stream" (awaiting
                    \*   gpt_resp_stream.next()), "failed" (returned Err),
                    \*   "done" (returned Ok)
    txt_buffer,     \* run_llm: txt_buffer
    tts_buffer,     \* run_llm: tts_buffer
    elapsed,        \* run_llm: last_text_send_time.elapsed(), in ms
    gpt_resp_stream,\* run_llm: the items the open response stream still yields
    requests,       \* the completion requests issued so far (their user message)
    tts_chan,       \* the chunks tts_client.send accepted, oldest first
    tts_open,       \* whether the receiving end of the TTS channel is alive
    tts_origin,     \* history: the responses whose tokens are in tts_buffer
    since_forward,  \* history: ms since the last request was issued, -1 if none
    after_err,      \* history: the open response stream has yielded an Err item
    sent,           \* number of fragments sent on llm_tx so far
    handled,        \* number of room events handled so far
    room_event,     \* handle_room_events: the event taken from room_events last
    resp_stream,    \* history: all items of the response stream opened last
    chan_mark,      \* history: Len(tts_chan) when that stream was opened
    held,           \* history: the input taken last left the buffer passing the
                    \*   boundary test, unflushed
    ws_state,       \* transcription connection: "Connecting", "Connected",
                    \*   "Disconnected", "Closed"
    close_mode,     \* what the last WSClient failure/close callback returned
    fails,          \* consecutive failed connects/closes since last Connected
    stt_queue,      \* audio buffers queued on stt_tx, oldest first
    ws_outbox,      \* binary messages handed to ws_client, not yet on the wire
    ws_wire,        \* binary messages written to the connection, in order
    audio_made,     \* number of audio buffers produced so far
    track_of,       \* history: for each buffer produced, the track it came from
    binary_calls,   \* history: the ws_client.binary calls made so far, each with
                    \*   the buffer passed and whether it returned Ok
    ws_text,        \* WSClient::on_text: the text message handled last
    texts_got,      \* number of text messages handled so far
    on_text_result, \* what on_text returned for it: "none", "Ok", "Err"
    probe,          \* pure-function check: the argument
    probe_out,      \* pure-function check: the result
    hooks,          \* livekit_webhook_handler: the requests in flight, each with
                    \*   its position ("idle", "joining", "done"), its response
                    \*   and how its join_room_with_ai call ended ("none", "ok",
                    \*   or the step that failed)
    is_active,      \* main: the AtomicBool shared by all handlers
    sessions,       \* per room name, the task sets join_room_with_ai has spawned
    room_open,      \* whether the sending side of room_events is alive
    room_pc,        \* handle_room_events: "run" (in its loop), "done" (returned)
    tracks_open,    \* whether the per-track audio tasks (stt_tx clones) are alive
    fwd_pc          \* the STT forwarding task: "run" (in its loop), "done"

llm_vars == <<text_input, llm_pc, txt_buffer, tts_buffer, elapsed, gpt_resp_stream,
              requests, tts_chan, tts_open, tts_origin, since_forward, after_err,
              sent, handled, room_event, resp_stream, chan_mark, held>>
text_vars == <<ws_text, texts_got, on_text_result>>
stt_vars == <<ws_state, close_mode, fails, stt_queue, ws_outbox, ws_wire, audio_made,
              track_of, binary_calls, text_vars>>
probe_vars == <<probe, probe_out>>
hook_vars == <<hooks, is_active, sessions>>
down_vars == <<room_open, room_pc, tracks_open, fwd_pc>>
vars == <<llm_vars, stt_vars, probe_vars, hook_vars, down_vars>>

----------------------------------------------------------------------------
(* Bounds of the model *)

\* items sent on the accumulator's input channel in one run
MaxInputs == 2
\* clock granularity (ms) of one Tick
TickMs == 250
\* number of ticks after which the modelled elapsed time saturates
MaxTicks == 2
\* audio buffers produced in one run
MaxAudio == 3
\* consecutive connection failures followed in one run
MaxFails == 2
\* length of the strings the boundary test is probed with
MaxProbeLen == 2
\* webhook requests handled in one run
MaxHooks == 2
\* text messages received from the transcription service
MaxTexts == 1

----------------------------------------------------------------------------
(* Strings *)

Min(a, b) == IF a < b THEN a ELSE b

\* str::ends_with(char)
EndsWithChar(s, c) == Len(s) > 0 /\ s[Len(s)] = c

Hello == <<"H", "e", "l", "l", "o">>
World == <<" ", "w", "o", "r", "l", "d", ".">>
Space == <<" ">>
Empty == <<>>

----------------------------------------------------------------------------
(* llm.rs *)

splitters == {".", ",", "?", "!", ";", ":", "U+2014", "-", "(", ")", "[", "]", "}", " "}

text_latency == 500

ends_with_splitter_NoSpaceCase(chunk) ==
    chunk # <<>> /\ \E splitter \in splitters : EndsWithChar(chunk, splitter)

ends_with_splitter(chunk) ==
    /\ chunk # <<>>
    /\ chunk # <<" ">>
    /\ \E splitter \in splitters : EndsWithChar(chunk, splitter)

\* Option<String>: None is <<>>, Some(s) is <<s>>
None == <<>>
Some(s) == <<s>>

\* one item of the response stream: Ok(response), whose choices each carry
\* delta.content, or Err
OkItem(contents) == [ok |-> TRUE, choices |-> contents]
ErrItem == [ok |-> FALSE, choices |-> <<>>]
Tok(s) == OkItem(<<Some(s)>>)

Sure  == <<"S", "u", "r", "e">>
Comma == <<",">>
SpI   == <<" ", "I">>
SpCan == <<" ", "c", "a", "n", ".">>
Hi    == <<"H", "i", ".">>
Yo    == <<"Y", "o", ".">>
Ok    == <<"O", "k">>

\* the token streams the language-model service may answer with
Streams ==
    { <<Tok(Sure), Tok(Comma), Tok(SpI), Tok(SpCan)>>,
      <<Tok(Ok)>>,
      <<Tok(Hi), ErrItem, Tok(Yo)>>,
      <<OkItem(<<None, Some(Hi)>>)>>,
      <<>> }

\* the fragments a holder of llm_tx may send
Fragments == {Hello, World, Hi, Space, Empty}

\* TTS::send: the chunk is queued for the Speech Dispatcher; Err when the
\* receiving end is gone
tts_send_ok == tts_open
tts_send(chan, chunk) == Append(chan, chunk)

\* llm.rs 74-83 for one choice; st is [buf, chan, origin], resp the number of
\* the response being consumed
PushContent(st, content, resp) ==
    IF content = None THEN st
    ELSE LET buf == st.buf \o content[1]
             org == IF content[1] = <<>> THEN st.origin ELSE st.origin \cup {resp}
         IN  IF ends_with_splitter(buf)
             THEN IF tts_send_ok
                  THEN [buf |-> <<>>,
                        chan |-> tts_send(st.chan, [text |-> buf, from |-> org]),
                        origin |-> {}]
                  ELSE [buf |-> buf, chan |-> st.chan, origin |-> org]
             ELSE [buf |-> buf, chan |-> st.chan, origin |-> org]

\* llm.rs 73-84: for chat_choice in response.choices
RECURSIVE PushChoices(_, _, _)
PushChoices(st, choices, resp) ==
    IF choices = <<>> THEN st
    ELSE PushChoices(PushContent(st, Head(choices), resp), Tail(choices), resp)

\* llm.rs 58-59
FlushCondition_NoDwell(buf, el) == ends_with_splitter(buf)
FlushCondition_Strict(buf, el) == ends_with_splitter(buf) /\ el > text_latency
FlushCondition(buf, el) == ends_with_splitter(buf) /\ el >= text_latency

\* llm.rs 93-95: the buffer kept when no flush happens
HeldBuffer_NoSpace(buf) == buf
HeldBuffer(buf) == IF ~EndsWithChar(buf, " ") THEN buf \o <<" ">> ELSE buf

\* Instant::elapsed() after one more tick; the model stops counting at
\* MaxTicks ticks, beyond which every comparison with text_latency is the same
MaxElapsed == MaxTicks * TickMs
Later(t) == Min(t + TickMs, MaxElapsed)

\* mpsc::UnboundedSender::send: queued unless the receiver has been dropped
chan_send(queue, open, item) == IF open THEN Append(queue, item) ELSE queue

\* a holder of llm_tx sends a fragment (LLM.tx is public)
SendFragment(s) ==
    /\ sent + handled < MaxInputs
    /\ sent' = sent + 1
    /\ text_input' = chan_send(text_input, llm_pc # "failed", s)
    /\ UNCHANGED <<llm_pc, txt_buffer, tts_buffer, elapsed, gpt_resp_stream, requests,
                   tts_chan, tts_open, tts_origin, since_forward, after_err, room_event,
                   resp_stream, chan_mark, held, handled>>
    /\ UNCHANGED <<stt_vars, probe_vars, hook_vars, down_vars>>

\* llm.rs 55-69, flush branch, request built and stream opened
LLMRecvFlush ==
    /\ llm_pc = "recv"
    /\ text_input # <<>>
    /\ LET buf == txt_buffer \o Head(text_input)
       IN  /\ FlushCondition(buf, elapsed)
           /\ txt_buffer' = buf
           /\ requests' = Append(requests, buf)
    /\ text_input' = Tail(text_input)
    /\ \E s \in Streams : gpt_resp_stream' = s /\ resp_stream' = s
    /\ chan_mark' = Len(tts_chan)
    /\ held' = FALSE
    /\ llm_pc' = "stream"
    /\ since_forward' = 0
    /\ after_err' = FALSE
    /\ UNCHANGED <<tts_buffer, elapsed, tts_chan, tts_open, tts_origin, sent, handled,
                   room_event>>
    /\ UNCHANGED <<stt_vars, probe_vars, hook_vars, down_vars>>

\* llm.rs 55-69, flush branch, build()? or create_stream(..).await? is Err:
\* run_llm returns the error and text_input_rx is dropped
LLMRecvFlushFail ==
    /\ llm_pc = "recv"
    /\ text_input # <<>>
    /\ LET buf == txt_buffer \o Head(text_input)
       IN  /\ FlushCondition(buf, elapsed)
           /\ txt_buffer' = buf
    /\ text_input' = <<>>
    /\ llm_pc' = "failed"
    /\ UNCHANGED <<tts_buffer, elapsed, gpt_resp_stream, requests, tts_chan, tts_open,
                   tts_origin, since_forward, after_err, sent, room_event,
                   resp_stream, chan_mark, held, handled>>
    /\ UNCHANGED <<stt_vars, probe_vars, hook_vars, down_vars>>

\* llm.rs 55-60 and 93-95, no flush
LLMRecvHold ==
    /\ llm_pc = "recv"
    /\ text_input # <<>>
    /\ LET buf == txt_buffer \o Head(text_input)
       IN  /\ ~FlushCondition(buf, elapsed)
           /\ txt_buffer' = HeldBuffer(buf)
           /\ held' = ends_with_splitter(buf)
    /\ text_input' = Tail(text_input)
    /\ UNCHANGED <<llm_pc, tts_buffer, elapsed, gpt_resp_stream, requests, tts_chan,
                   tts_open, tts_origin, since_forward, after_err, sent, handled,
                   room_event, resp_stream, chan_mark>>
    /\ UNCHANGED <<stt_vars, probe_vars, hook_vars, down_vars>>

\* llm.rs 70-90: one item of the response stream
LLMStreamNext ==
    /\ llm_pc = "stream"
    /\ gpt_resp_stream # <<>>
    /\ LET item == Head(gpt_resp_stream)
           st == PushChoices([buf |-> tts_buffer, chan |-> tts_chan, origin |-> tts_origin],
                             item.choices, Len(requests))
       IN  /\ tts_buffer' = st.buf
           /\ tts_chan' = st.chan
           /\ tts_origin' = st.origin
           /\ after_err' = (after_err \/ ~item.ok)
    /\ gpt_resp_stream' = Tail(gpt_resp_stream)
    /\ UNCHANGED <<text_input, llm_pc, txt_buffer, elapsed, requests, tts_open,
                   since_forward, sent, room_event, resp_stream, chan_mark, held, handled>>
    /\ UNCHANGED <<stt_vars, probe_vars, hook_vars, down_vars>>

\* llm.rs 70 and 91-92: the stream is exhausted
LLMStreamEnd ==
    /\ llm_pc = "stream"
    /\ gpt_resp_stream = <<>>
    /\ txt_buffer' = <<>>
    /\ elapsed' = 0
    /\ llm_pc' = "recv"
    /\ UNCHANGED <<text_input, tts_buffer, gpt_resp_stream, requests, tts_chan, tts_open,
                   tts_origin, since_forward, after_err, sent, room_event,
                   resp_stream, chan_mark, held, handled>>
    /\ UNCHANGED <<stt_vars, probe_vars, hook_vars, down_vars>>

\* time passes
Tick ==
    /\ elapsed' = Later(elapsed)
    /\ since_forward' = IF since_forward = -1 THEN -1 ELSE Later(since_forward)
    /\ UNCHANGED <<text_input, llm_pc, txt_buffer, tts_buffer, gpt_resp_stream, requests,
                   tts_chan, tts_open, tts_origin, after_err, sent, room_event,
                   resp_stream, chan_mark, held, handled>>
    /\ UNCHANGED <<stt_vars, probe_vars, hook_vars, down_vars>>

\* the Speech Dispatcher's receiving end goes away
TTSClose ==
    /\ tts_open
    /\ tts_open' = FALSE
    /\ UNCHANGED <<text_input, llm_pc, txt_buffer, tts_buffer, elapsed, gpt_resp_stream,
                   requests, tts_chan, tts_origin, since_forward, after_err, sent,
                   room_event, resp_stream, chan_mark, held, handled>>
    /\ UNCHANGED <<stt_vars, probe_vars, hook_vars, down_vars>>

----------------------------------------------------------------------------
(* livekit.rs *)

CHAT_PREFIX == <<"[", "c", "h", "a", "t", "]">>

HiThere == <<"h", "i", " ", "t", "h", "e", "r", "e">>
Hola    == <<"h", "o", "l", "a", "U+00A1">>

IsAscii(c) == c \notin {"U+2014", "U+00A1", "U+00E9"}

\* a data payload: the bytes of a JSON document {message, timestamp} carrying
\* `message`, or bytes that are no such document
RoomText(message) == [json |-> "RoomText", message |-> message]
Malformed == [json |-> "Malformed", message |-> <<>>]

\* <[u8]>::as_ascii: Some exactly when every byte is ASCII
as_ascii(payload) == \A i \in 1..Len(payload.message) : IsAscii(payload.message[i])

\* serde_json::from_str::<RoomText>: Ok exactly for a {message, timestamp} document
from_str_ok(payload) == payload.json = "RoomText"

DataReceived(kind, payload) == [type |-> "DataReceived", kind |-> kind, payload |-> payload]
OtherEvent == [type |-> "Other", kind |-> "Lossy", payload |-> Malformed]
NoEvent == [type |-> "None", kind |-> "Lossy", payload |-> Malformed]

RoomEvents ==
    { DataReceived(k, p) : k \in {"Reliable", "Lossy"},
                           p \in {RoomText(HiThere), RoomText(Hola), Malformed} }
    \cup {OtherEvent}

\* livekit.rs 149-169: what the DataReceived arm sends on llm_tx, if anything
ChatToSend(ev) ==
    IF /\ ev.type = "DataReceived"
       /\ ev.kind = "Reliable"
       /\ as_ascii(ev.payload)
       /\ from_str_ok(ev.payload)
    THEN Some(CHAT_PREFIX \o ev.payload.message \o <<" ">>)
    ELSE None

\* livekit.rs 116-172: one event taken from room_events
HandleRoomEvent(ev) ==
    /\ room_pc = "run" /\ room_open
    /\ sent + handled < MaxInputs
    /\ handled' = handled + 1
    /\ room_event' = ev
    /\ text_input' = IF ChatToSend(ev) = None THEN text_input
                     ELSE chan_send(text_input, llm_pc # "failed", ChatToSend(ev)[1])
    /\ UNCHANGED <<llm_pc, txt_buffer, tts_buffer, elapsed, gpt_resp_stream, requests,
                   tts_chan, tts_open, tts_origin, since_forward, after_err, sent,
                   resp_stream, chan_mark, held>>
    /\ UNCHANGED <<stt_vars, probe_vars, hook_vars, down_vars>>

----------------------------------------------------------------------------
(* main.rs: the webhook handler *)

Rooms == {"r1", "r2"}

\* a webhook request: `fault` is what stops it before the event is read
\* ("not_post", "no_verifier", "bad_utf8", "bad_token") or "none"; the event
\* carries a room (name, num_participants, max_participants) or none
HookReq(fault, event, has_room, room, num, max) ==
    [fault |-> fault, event |-> event, has_room |-> has_room, room |-> room,
     num |-> num, max |-> max]
NoReq == HookReq("none", "none", FALSE, "r1", 0, 0)

HookRequests ==
    { HookReq(f, "room_started", TRUE, "r1", 0, 0) :
          f \in {"not_post", "no_verifier", "bad_utf8", "bad_token"} }
    \cup { HookReq("none", "participant_joined", FALSE, "r1", 0, 0) }
    \cup { HookReq("none", e, TRUE, r, c[1], c[2]) :
              e \in {"room_started", "room_finished", "participant_joined"},
              r \in Rooms, c \in {<<0, 0>>, <<1, 2>>} }

\* main.rs 97
JoinGate_AtMost(num, max) == num <= max
JoinGate(num, max) == num < max

\* main.rs 56-85: the response that ends the handler before the event is read
EarlyResponse(req) ==
    CASE req.fault = "not_post"    -> "MethodNotAllowed"
      [] req.fault = "no_verifier" -> "InternalServerError"
      [] req.fault = "bad_utf8"    -> "BadRequest"
      [] req.fault = "bad_token"   -> "InternalServerError"
      [] OTHER                     -> "none"

\* main.rs 88-109: the handler reaches join_room_with_ai(..).await
CallsJoin(req) ==
    /\ req.fault = "none"
    /\ req.has_room
    /\ req.event = "room_started"
    /\ JoinGate(req.num, req.max)

\* main.rs 50-135 up to the first suspension: the request is read and, unless
\* it awaits join_room_with_ai, answered
HookReceive(i, req) ==
    /\ hooks[i].pc = "idle"
    /\ \A j \in 1..(i - 1) : hooks[j].pc # "idle"
    /\ IF CallsJoin(req)
       THEN /\ hooks' = [hooks EXCEPT ![i] = [pc |-> "joining", req |-> req, resp |-> "none",
                                              join |-> "none"]]
            /\ UNCHANGED is_active
       ELSE /\ hooks' = [hooks EXCEPT ![i] =
                           [pc |-> "done", req |-> req, join |-> "none",
                            resp |-> IF EarlyResponse(req) # "none"
                                     THEN EarlyResponse(req) ELSE "Ok"]]
            /\ is_active' = IF /\ req.fault = "none" /\ req.has_room
                               /\ req.event = "room_finished"
                            THEN FALSE ELSE is_active
    /\ UNCHANGED sessions
    /\ UNCHANGED <<llm_vars, stt_vars, probe_vars, down_vars>>

\* livekit.rs 175-186 returns Ok: both tasks are spawned; main.rs 110-116
HookJoinOk(i) ==
    /\ hooks[i].pc = "joining"
    /\ sessions' = [sessions EXCEPT ![hooks[i].req.room] = @ + 1]
    /\ is_active' = TRUE
    /\ hooks' = [hooks EXCEPT ![i].pc = "done", ![i].resp = "Ok", ![i].join = "ok"]
    /\ UNCHANGED <<llm_vars, stt_vars, probe_vars, down_vars>>

\* what the handler stores in is_active when join_room_with_ai fails (nothing)
FlagAfterFailedJoin_SetFirst(flag) == TRUE
FlagAfterFailedJoin(flag) == flag

\* the steps of join_room_with_ai that return an error: create_bot_token,
\* Room::connect, publish_track (livekit.rs 88, 92, 97) and TTS::new (180)
JoinFailSteps == {"token", "connect", "publish", "tts"}

\* livekit.rs 175-180 returns Err at `step`, before any spawn; main.rs 111-113
HookJoinFail(i, step) ==
    /\ hooks[i].pc = "joining"
    /\ hooks' = [hooks EXCEPT ![i].pc = "done", ![i].resp = "InternalServerError",
                               ![i].join = step]
    /\ is_active' = FlagAfterFailedJoin(is_active)
    /\ UNCHANGED sessions
    /\ UNCHANGED <<llm_vars, stt_vars, probe_vars, down_vars>>

InitHook ==
    /\ hooks = [i \in 1..MaxHooks |-> [pc |-> "idle", req |-> NoReq, resp |-> "none",
                                       join |-> "none"]]
    /\ is_active = FALSE
    /\ sessions = [r \in Rooms |-> 0]

NextHook ==
    \/ \E i \in 1..MaxHooks, req \in HookRequests : HookReceive(i, req)
    \/ \E i \in 1..MaxHooks : HookJoinOk(i)
    \/ \E i \in 1..MaxHooks, step \in JoinFailSteps : HookJoinFail(i, step)

----------------------------------------------------------------------------
(* stt.rs: WSClient::on_text *)

\* a text message of the transcription service: a JSON document with a
\* first-alternative transcript ("Results"), a JSON document without one
\* ("Metadata"), or text that is no JSON document ("NotJson")
Results(transcript) == [kind |-> "Results", transcript |-> Some(transcript)]
Metadata == [kind |-> "Metadata", transcript |-> None]
NotJson == [kind |-> "NotJson", transcript |-> None]
NoText == [kind |-> "none", transcript |-> None]

SayHi == <<"s", "a", "y", " ", "\"", "h", "i", "\"">>

TextMessages == {Results(t) : t \in {Hi, SayHi, Empty}} \cup {Metadata, NotJson}

\* stt.rs 27: serde_json::from_str::<Value> is Ok exactly for a JSON document
from_str_Value_ok(msg) == msg.kind # "NotJson"

\* serde_json's string escaping: a quote or a backslash gets a backslash
RECURSIVE escape(_)
escape(t) ==
    IF t = <<>> THEN <<>>
    ELSE (IF Head(t) \in {"\"", "\\"} THEN <<"\\", Head(t)>> ELSE <<Head(t)>>)
         \o escape(Tail(t))

\* stt.rs 31: Value::to_string of a Value::String is its JSON text, the
\* escaped characters between two quotes
to_string(transcript) == <<"\"">> \o escape(transcript) \o <<"\"">>

\* stt.rs 26-37: one text message arrives on the connection. An Err returned
\* by the callback ends the ezsockets client task: the connection is gone and
\* no close callback asks for a reconnect
OnText(msg) ==
    /\ ws_state = "Connected"
    /\ texts_got < MaxTexts
    /\ texts_got' = texts_got + 1
    /\ ws_text' = msg
    /\ IF ~from_str_Value_ok(msg)
       THEN /\ on_text_result' = "Err"
            /\ ws_state' = "Closed"
            /\ UNCHANGED text_input
       ELSE /\ on_text_result' = "Ok"
            /\ UNCHANGED ws_state
            /\ text_input' = IF msg.transcript = None THEN text_input
                             ELSE chan_send(text_input, llm_pc # "failed",
                                            to_string(msg.transcript[1]))
    /\ UNCHANGED <<close_mode, fails, stt_queue, ws_outbox, ws_wire, audio_made,
                   track_of, binary_calls>>
    /\ UNCHANGED <<llm_pc, txt_buffer, tts_buffer, elapsed, gpt_resp_stream, requests,
                   tts_chan, tts_open, tts_origin, since_forward, after_err, sent,
                   handled, room_event, resp_stream, chan_mark, held>>
    /\ UNCHANGED <<probe_vars, hook_vars, down_vars>>

----------------------------------------------------------------------------
(* The pipeline's specification *)

InitLLM ==
    /\ text_input = <<>>
    /\ llm_pc = "recv"
    /\ txt_buffer = <<>>
    /\ tts_buffer = <<>>
    /\ elapsed = 0
    /\ gpt_resp_stream = <<>>
    /\ requests = <<>>
    /\ tts_chan = <<>>
    /\ tts_open = TRUE
    /\ tts_origin = {}
    /\ since_forward = -1
    /\ held = FALSE
    /\ after_err = FALSE
    /\ sent = 0
    /\ handled = 0
    /\ room_event = NoEvent
    /\ resp_stream = <<>>
    /\ chan_mark = 0

InitSTT ==
    /\ ws_state = "Connecting"
    /\ close_mode = "Reconnect"
    /\ fails = 0
    /\ stt_queue = <<>>
    /\ ws_outbox = <<>>
    /\ ws_wire = <<>>
    /\ audio_made = 0
    /\ track_of = <<>>
    /\ binary_calls = <<>>
    /\ ws_text = NoText
    /\ texts_got = 0
    /\ on_text_result = "none"

InitProbe ==
    /\ probe = <<>>
    /\ probe_out = None

InitDown ==
    /\ room_open = TRUE
    /\ room_pc = "run"
    /\ tracks_open = TRUE
    /\ fwd_pc = "run"

Init == InitLLM /\ InitSTT /\ InitProbe /\ InitHook /\ InitDown

Next ==
    \/ \E s \in Fragments : SendFragment(s)
    \/ \E ev \in RoomEvents : HandleRoomEvent(ev)
    \/ LLMRecvFlush
    \/ LLMRecvFlushFail
    \/ LLMRecvHold
    \/ LLMStreamNext
    \/ LLMStreamEnd
    \/ Tick
    \/ TTSClose

Spec == Init /\ [][Next]_vars

\* run_llm is a spawned task: it takes its next step whenever one is possible,
\* and time passes; nothing obliges anyone to send another input
LLMStep == LLMRecvFlush \/ LLMRecvFlushFail \/ LLMRecvHold \/ LLMStreamNext \/ LLMStreamEnd
FairSpec == Spec /\ WF_vars(LLMStep) /\ WF_vars(Tick)

\* the front door on its own
SpecHook == Init /\ [][NextHook]_vars

----------------------------------------------------------------------------
(* stt.rs: the transcription connection *)

\* WSClient::on_connect_fail, on_close, on_disconnect: the ClientCloseMode returned
on_connect_fail == "Reconnect"
on_close_GivesUp == "Close"
on_close == "Reconnect"
on_disconnect == "Reconnect"

Range(q) == {q[i] : i \in 1..Len(q)}

\* the audio tracks the bot is subscribed to, each with its own spawned task
Tracks == {"mic1", "mic2"}

\* livekit.rs 118-135: the task of a subscribed track queues one frame on stt_tx
AudioFrame(track) ==
    /\ tracks_open
    /\ audio_made < MaxAudio
    /\ audio_made' = audio_made + 1
    /\ track_of' = Append(track_of, track)
    /\ stt_queue' = Append(stt_queue, audio_made + 1)
    /\ UNCHANGED <<ws_state, close_mode, fails, ws_outbox, ws_wire>>
    /\ UNCHANGED <<binary_calls, text_vars>>
    /\ UNCHANGED <<llm_vars, probe_vars, hook_vars, down_vars>>

\* mpsc::UnboundedReceiver::recv: the item queued first
recv_Newest(queue) == queue[Len(queue)]
recv(queue) == Head(queue)

\* stt.rs 108-118: the forwarding task takes one buffer and calls
\* ws_client.binary, which is Err (logged) once the client has shut down
STTForward ==
    /\ fwd_pc = "run"
    /\ stt_queue # <<>>
    /\ stt_queue' = Tail(stt_queue)
    /\ ws_outbox' = chan_send(ws_outbox, ws_state # "Closed", recv(stt_queue))
    /\ binary_calls' = Append(binary_calls,
                              [buf |-> recv(stt_queue), ok |-> ws_state # "Closed"])
    /\ UNCHANGED <<ws_state, close_mode, fails, ws_wire, audio_made>>
    /\ UNCHANGED <<track_of, text_vars>>
    /\ UNCHANGED <<llm_vars, probe_vars, hook_vars, down_vars>>

\* the client writes the next binary message while the connection is up
WSWrite ==
    /\ ws_state = "Connected"
    /\ ws_outbox # <<>>
    /\ ws_wire' = Append(ws_wire, [buf |-> Head(ws_outbox), conn |-> fails])
    /\ ws_outbox' = Tail(ws_outbox)
    /\ UNCHANGED <<ws_state, close_mode, fails, stt_queue, audio_made>>
    /\ UNCHANGED <<track_of, binary_calls, text_vars>>
    /\ UNCHANGED <<llm_vars, probe_vars, hook_vars, down_vars>>

\* stt.rs 50-53: the handshake succeeds, on_connect
HandshakeOk ==
    /\ ws_state = "Connecting"
    /\ ws_state' = "Connected"
    /\ UNCHANGED <<close_mode, fails, stt_queue, ws_outbox, ws_wire, audio_made>>
    /\ UNCHANGED <<track_of, binary_calls, text_vars>>
    /\ UNCHANGED <<llm_vars, probe_vars, hook_vars, down_vars>>

\* stt.rs 55-58: the handshake fails, on_connect_fail
HandshakeFail ==
    /\ ws_state = "Connecting"
    /\ fails < MaxFails
    /\ fails' = fails + 1
    /\ ws_state' = "Disconnected"
    /\ close_mode' = on_connect_fail
    /\ UNCHANGED <<stt_queue, ws_outbox, ws_wire, audio_made>>
    /\ UNCHANGED <<track_of, binary_calls, text_vars>>
    /\ UNCHANGED <<llm_vars, probe_vars, hook_vars, down_vars>>

\* stt.rs 60-66: the service closes the connection, on_close
ConnClosed ==
    /\ ws_state = "Connected"
    /\ fails < MaxFails
    /\ fails' = fails + 1
    /\ ws_state' = "Disconnected"
    /\ close_mode' = on_close
    /\ UNCHANGED <<stt_queue, ws_outbox, ws_wire, audio_made>>
    /\ UNCHANGED <<track_of, binary_calls, text_vars>>
    /\ UNCHANGED <<llm_vars, probe_vars, hook_vars, down_vars>>

\* stt.rs 68-71: the connection drops, on_disconnect
ConnDropped ==
    /\ ws_state = "Connected"
    /\ fails < MaxFails
    /\ fails' = fails + 1
    /\ ws_state' = "Disconnected"
    /\ close_mode' = on_disconnect
    /\ UNCHANGED <<stt_queue, ws_outbox, ws_wire, audio_made>>
    /\ UNCHANGED <<track_of, binary_calls, text_vars>>
    /\ UNCHANGED <<llm_vars, probe_vars, hook_vars, down_vars>>

\* the client acts on the ClientCloseMode the callback returned
Retry ==
    /\ ws_state = "Disconnected"
    /\ ws_state' = IF close_mode = "Reconnect" THEN "Connecting" ELSE "Closed"
    /\ UNCHANGED <<close_mode, fails, stt_queue, ws_outbox, ws_wire, audio_made>>
    /\ UNCHANGED <<track_of, binary_calls, text_vars>>
    /\ UNCHANGED <<llm_vars, probe_vars, hook_vars, down_vars>>

NextSTT ==
    \/ \E track \in Tracks : AudioFrame(track)
    \/ STTForward
    \/ WSWrite
    \/ HandshakeOk
    \/ HandshakeFail
    \/ ConnClosed
    \/ ConnDropped
    \/ Retry

SpecSTT == Init /\ [][NextSTT]_vars

\* the forwarding task and the client are scheduled tasks: each runs when it can
FairSTT == SpecSTT /\ WF_vars(STTForward) /\ WF_vars(WSWrite) /\ WF_vars(Retry)

\* the connection with the service's text messages arriving on it
NextSTTText ==
    \/ NextSTT
    \/ \E msg \in TextMessages : OnText(msg)

SpecSTTText == Init /\ [][NextSTTText]_vars

FairSTTText == SpecSTTText /\ WF_vars(STTForward) /\ WF_vars(WSWrite) /\ WF_vars(Retry)

----------------------------------------------------------------------------
(* The end of the pipeline tasks *)

\* the senders of the accumulator's channel: llm_tx, owned by
\* handle_room_events, and its clone in WSClient, owned by the client task
llm_senders_gone == room_pc = "done" /\ ws_state = "Closed"

\* the senders of the STT queue: stt_tx, owned by handle_room_events, and
\* its clones in the per-track tasks
stt_senders_gone == room_pc = "done" /\ ~tracks_open

\* the room goes away: the sending side of room_events is dropped
RoomClose ==
    /\ room_open
    /\ room_open' = FALSE
    /\ UNCHANGED <<room_pc, tracks_open, fwd_pc>>
    /\ UNCHANGED <<llm_vars, stt_vars, probe_vars, hook_vars>>

\* livekit.rs 116 and 173: room_events.recv() is None, handle_room_events returns
RoomRecvNone ==
    /\ room_pc = "run"
    /\ ~room_open
    /\ room_pc' = "done"
    /\ UNCHANGED <<room_open, tracks_open, fwd_pc>>
    /\ UNCHANGED <<llm_vars, stt_vars, probe_vars, hook_vars>>

\* livekit.rs 125 and 135: audio_stream.next() is None, the track tasks end
TracksEnd ==
    /\ tracks_open
    /\ tracks_open' = FALSE
    /\ UNCHANGED <<room_open, room_pc, fwd_pc>>
    /\ UNCHANGED <<llm_vars, stt_vars, probe_vars, hook_vars>>

\* stt.rs 109 and 117: rx.recv() is None, the forwarding task ends
FwdRecvNone ==
    /\ fwd_pc = "run"
    /\ stt_queue = <<>>
    /\ stt_senders_gone
    /\ fwd_pc' = "done"
    /\ UNCHANGED <<room_open, room_pc, tracks_open>>
    /\ UNCHANGED <<llm_vars, stt_vars, probe_vars, hook_vars>>

\* llm.rs 55 and 97: text_input_rx.recv() is None, run_llm returns Ok(())
LLMRecvNone ==
    /\ llm_pc = "recv"
    /\ text_input = <<>>
    /\ llm_senders_gone
    /\ llm_pc' = "done"
    /\ UNCHANGED <<text_input, txt_buffer, tts_buffer, elapsed, gpt_resp_stream,
                   requests, tts_chan, tts_open, tts_origin, since_forward, after_err,
                   sent, handled, room_event, resp_stream, chan_mark, held>>
    /\ UNCHANGED <<stt_vars, probe_vars, hook_vars, down_vars>>

\* what reaches the tasks while they wind down: chat messages and other room
\* events, the frames of one track, and text messages of the service
DownEvents == {DataReceived("Reliable", RoomText(HiThere)), OtherEvent}
DownTexts == {Metadata, NotJson}

NextDown ==
    \/ \E ev \in DownEvents : HandleRoomEvent(ev)
    \/ RoomClose
    \/ RoomRecvNone
    \/ HandshakeOk
    \/ \E msg \in DownTexts : OnText(msg)
    \/ AudioFrame("mic1")
    \/ TracksEnd
    \/ STTForward
    \/ FwdRecvNone
    \/ LLMRecvFlush
    \/ LLMRecvFlushFail
    \/ LLMRecvHold
    \/ LLMStreamNext
    \/ LLMStreamEnd
    \/ LLMRecvNone
    \/ Tick

SpecDown == Init /\ [][NextDown]_vars

\* every task is spawned on the runtime and runs whenever it can
FairDown ==
    /\ SpecDown
    /\ WF_vars(LLMStep \/ LLMRecvNone)
    /\ WF_vars(STTForward)
    /\ WF_vars(FwdRecvNone)
    /\ WF_vars(RoomRecvNone)

----------------------------------------------------------------------------
(* The boundary test on its own *)

ProbeChars == splitters \cup {"a", "{", "\""}
ProbeStrings == UNION {[1..n -> ProbeChars] : n \in 0..MaxProbeLen}

InitSplitter ==
    /\ InitLLM /\ InitSTT /\ InitHook /\ InitDown
    /\ probe \in ProbeStrings
    /\ probe_out = None

ApplySplitter ==
    /\ probe_out = None
    /\ probe_out' = Some(ends_with_splitter(probe))
    /\ UNCHANGED probe
    /\ UNCHANGED <<llm_vars, stt_vars, hook_vars, down_vars>>

NextSplitter == ApplySplitter

SpecSplitter == InitSplitter /\ [][NextSplitter]_vars

----------------------------------------------------------------------------
(* Claims *)

\* the boundary test as the specification words it
BoundaryTest(s) == s # <<>> /\ s # <<" ">> /\ s[Len(s)] \in splitters

\* run_llm takes one input from text_input_rx in this step
RecvStep == llm_pc = "recv" /\ text_input # <<>> /\ sent' = sent /\ handled' = handled
            /\ text_input' # text_input
\* the buffer once that input is appended
Appended == txt_buffer \o Head(text_input)
\* that step issues a completion request
Issues == Len(requests') = Len(requests) + 1

\* C1: a completion request is issued for the buffer only if, at that moment,
\* the buffer passes the boundary test and at least the dwell time has elapsed
\* since the previous forward; when the boundary test fails, or the dwell time
\* has not elapsed, no request is issued.
C1_FlushOnlyOnBoundaryAndDwell ==
    [][Len(requests') # Len(requests) =>
          /\ RecvStep
          /\ BoundaryTest(Appended)
          /\ elapsed >= text_latency
          /\ since_forward = -1 \/ since_forward >= text_latency
          /\ requests' = Append(requests, Appended)]_vars

C1_Witness ==
    /\ Len(requests) = 1
    /\ llm_pc = "stream"
    /\ since_forward = 0

\* C2: text that passes the boundary test and is held back only by the dwell
\* time is flushed once the dwell time has elapsed, even if no further input
\* arrives.
C2_HeldTextIsFlushed ==
    \A n \in 0..MaxInputs :
        (held /\ llm_pc = "recv" /\ elapsed >= text_latency /\ Len(requests) = n)
            ~> (Len(requests) > n)

\* C3 as stated: an input that leaves the buffer passing the boundary test, at
\* least the dwell time after the previous Utterance was forwarded (or with no
\* flush so far), is flushed while that input is processed.
C3_FlushSinceForward ==
    [][(/\ RecvStep
        /\ BoundaryTest(Appended)
        /\ since_forward = -1 \/ since_forward >= text_latency)
          => (Issues \/ llm_pc' = "failed")]_vars

\* C3 as amended: an input that leaves the buffer passing the boundary test, at
\* least the dwell time after last_text_send_time (the start of run_llm, or the
\* moment the previous response stream was drained), is flushed while that
\* input is processed, before any later input is taken: the request carries
\* the buffer, or run_llm returns the error of building or opening it.
C3_FlushSinceDrain ==
    [][(RecvStep /\ BoundaryTest(Appended) /\ elapsed >= text_latency)
          => \/ /\ requests' = Append(requests, Appended)
                /\ llm_pc' = "stream"
                /\ text_input' = Tail(text_input)
             \/ llm_pc' = "failed"]_vars

C3_Witness ==
    /\ Len(requests) = 2
    /\ since_forward = 0

\* C4: every chunk sent to the Speech Dispatcher holds text of one completion
\* response only.
C4_ChunkOfOneResponse ==
    \A i \in 1..Len(tts_chan) : Cardinality(tts_chan[i].from) <= 1

\* the chunks sent since the open response stream was opened
ChunksOfResponse ==
    [i \in 1..(Len(tts_chan) - chan_mark) |-> tts_chan[chan_mark + i].text]

\* C5: while the Speech Dispatcher accepts chunks, each token is appended to
\* the output buffer; each time the buffer then passes the boundary test its
\* whole content is sent as one chunk and the buffer is cleared; tokens "Sure",
\* ",", " I", " can." give exactly the chunks "Sure," and " I can.".
C5_ChunkPerBoundary ==
    /\ [][(/\ llm_pc = "stream"
           /\ tts_open
           /\ gpt_resp_stream # <<>>
           /\ gpt_resp_stream' = Tail(gpt_resp_stream)
           /\ Head(gpt_resp_stream).ok
           /\ Len(Head(gpt_resp_stream).choices) = 1
           /\ Head(gpt_resp_stream).choices[1] # None)
             => LET buf == tts_buffer \o Head(gpt_resp_stream).choices[1][1]
                IN  IF BoundaryTest(buf)
                    THEN /\ tts_buffer' = <<>>
                         /\ Len(tts_chan') = Len(tts_chan) + 1
                         /\ tts_chan'[Len(tts_chan')].text = buf
                    ELSE /\ tts_buffer' = buf
                         /\ tts_chan' = tts_chan]_vars
    /\ []((/\ llm_pc = "stream"
           /\ tts_open
           /\ gpt_resp_stream = <<>>
           /\ resp_stream = <<Tok(Sure), Tok(Comma), Tok(SpI), Tok(SpCan)>>)
             => ChunksOfResponse = <<Sure \o Comma, SpI \o SpCan>>)

\* C6 as stated: an input that causes no flush leaves the previous buffer
\* followed by the input, with one separating space between them only when the
\* previous buffer held text that did not end in whitespace.
C6_SpaceBetween ==
    [][(RecvStep /\ ~Issues /\ llm_pc' = "recv")
          => txt_buffer' =
                IF txt_buffer # <<>> /\ txt_buffer[Len(txt_buffer)] # " "
                THEN txt_buffer \o <<" ">> \o Head(text_input)
                ELSE txt_buffer \o Head(text_input)]_vars

\* C6 as amended: an input that causes no flush leaves the previous buffer
\* followed by the input, followed by one space when that text does not already
\* end in a space; nothing is inserted before the input.
C6_SpaceAfter ==
    [][(RecvStep /\ ~Issues /\ llm_pc' = "recv")
          => txt_buffer' =
                IF Appended = <<>> \/ Appended[Len(Appended)] # " "
                THEN Appended \o <<" ">>
                ELSE Appended]_vars

\* "Hello" then " world." within the dwell time
C6_Witness ==
    /\ txt_buffer = Hello \o <<" ">> \o World \o <<" ">>
    /\ requests = <<>>
    /\ llm_pc = "recv"

\* C8: once a response stream has yielded an error item, no token that stream
\* delivers afterwards becomes a chunk.
C8_NoChunkAfterError ==
    [][(llm_pc = "stream" /\ after_err) => tts_chan' = tts_chan]_vars

\* C10: a reliable data message whose payload is a {message, timestamp}
\* document puts "[chat]" + message + " " on the accumulator's input channel;
\* a data message that is not reliable puts nothing there.
C10_ChatReachesAccumulator ==
    [][(handled' = handled + 1 /\ room_event'.type = "DataReceived")
          => IF room_event'.kind = "Reliable" /\ from_str_ok(room_event'.payload)
             THEN text_input' = Append(text_input,
                                       CHAT_PREFIX \o room_event'.payload.message \o <<" ">>)
             ELSE text_input' = text_input]_vars

\* C7: ends_with_splitter(s) is true for every non-empty s other than " " whose
\* last character is a boundary character, false for "" and for " ", and false
\* for every s whose last character is no boundary character.
C7_BoundaryTest ==
    probe_out # None =>
        LET s == probe
            r == probe_out[1]
            lastIsBoundary == s # <<>> /\ s[Len(s)] \in splitters
        IN  /\ (s # <<>> /\ s # <<" ">> /\ lastIsBoundary) => r
            /\ (s = <<>> \/ s = <<" ">>) => ~r
            /\ (s # <<>> /\ ~lastIsBoundary) => ~r

C7_Witness ==
    /\ probe = <<"a", "U+2014">>
    /\ probe_out = Some(TRUE)

\* C9: however many connects fail and connections close or drop, every such
\* callback asks for reconnection: the client never shuts down, a disconnected
\* client goes back to connecting on its own, and once the handshake succeeds
\* the buffers queued on stt_tx are written as binary messages.
C9_ReconnectConverges ==
    /\ [](ws_state # "Closed" /\ close_mode = "Reconnect")
    /\ (ws_state = "Disconnected") ~> (ws_state = "Connecting")
    /\ \A b \in 1..MaxAudio :
          (ws_state = "Connected" /\ b \in Range(stt_queue) \cup Range(ws_outbox))
              ~> (ws_state # "Connected" \/ \E i \in 1..Len(ws_wire) : ws_wire[i].buf = b)

C9_Witness ==
    /\ fails = MaxFails
    /\ ws_state = "Connected"
    /\ \E i \in 1..Len(ws_wire) : ws_wire[i].conn = MaxFails

\* C11: when a step of join_room_with_ai fails, the call returns an error,
\* neither pipeline task is spawned, the handler answers with a server error,
\* and the handler leaves the session-active flag as it was.
C11_FailedJoinStartsNothing ==
    [][\A i \in 1..MaxHooks :
          (hooks[i].join = "none" /\ hooks'[i].join \in JoinFailSteps)
              => /\ hooks'[i].resp = "InternalServerError"
                 /\ hooks'[i].pc = "done"
                 /\ sessions' = sessions
                 /\ is_active' = is_active]_vars

C11_Witness ==
    /\ hooks[1].join = "ok"
    /\ hooks[2].join = "tts"
    /\ is_active
    /\ sessions[hooks[2].req.room] = 0

VerifiedRoomStarted(req) ==
    req.fault = "none" /\ req.has_room /\ req.event = "room_started"

\* C12 (as stated): every verified room_started webhook that carries a room
\* makes the handler call join_room_with_ai, whatever the participant counts.
C12_EveryRoomStartedJoins ==
    [][\A i \in 1..MaxHooks :
          (hooks[i].pc = "idle" /\ hooks'[i].pc # "idle"
              /\ VerifiedRoomStarted(hooks'[i].req))
              => hooks'[i].pc = "joining"]_vars

\* C12 (amended): a verified room_started webhook that carries a room makes
\* the handler call join_room_with_ai, with that room's name, exactly when the
\* room's num_participants is below its max_participants; otherwise the
\* handler answers Ok without joining and without touching the flag.
C12_RoomStartedJoinsBelowMax ==
    [][\A i \in 1..MaxHooks :
          /\ (hooks[i].pc = "idle" /\ hooks'[i].pc # "idle"
                 /\ VerifiedRoomStarted(hooks'[i].req))
                => /\ hooks'[i].pc = "joining"
                        <=> hooks'[i].req.num < hooks'[i].req.max
                   /\ hooks'[i].pc # "joining"
                        => /\ hooks'[i].pc = "done"
                           /\ hooks'[i].resp = "Ok"
                           /\ is_active' = is_active
                   /\ sessions' = sessions
          /\ (hooks[i].join = "none" /\ hooks'[i].join = "ok")
                => /\ VerifiedRoomStarted(hooks[i].req)
                   /\ sessions' = [sessions EXCEPT ![hooks[i].req.room] = @ + 1]]_vars

C12_Witness ==
    /\ VerifiedRoomStarted(hooks[1].req)
    /\ hooks[1].req.num = 0 /\ hooks[1].req.max = 0
    /\ hooks[1].pc = "done" /\ hooks[1].resp = "Ok" /\ hooks[1].join = "none"
    /\ VerifiedRoomStarted(hooks[2].req)
    /\ hooks[2].req.num = 1 /\ hooks[2].req.max = 2
    /\ hooks[2].join = "ok" /\ sessions[hooks[2].req.room] = 1

\* C13: whatever room_started and room_finished webhooks arrive, and however
\* their handlers interleave, a room never has more than one bot session.
C13_OneSessionPerRoom ==
    \A r \in Rooms : sessions[r] <= 1

IsPrefix(p, q) == Len(p) <= Len(q) /\ SubSeq(q, 1, Len(p)) = p

\* C14: every input the accumulator consumes ends up in exactly one
\* Utterance: a receive takes exactly the head of the queue into the buffer,
\* a flush sends the whole buffer as one request, the buffer is empty and the
\* dwell timer is zero when the response is over, and inputs that arrive
\* during a response stay queued behind the ones already there.
C14_InputsKept ==
    [][/\ RecvStep
           => /\ text_input' = Tail(text_input)
              /\ llm_pc' # "failed"
              /\ IF FlushCondition(Appended, elapsed)
                 THEN Issues /\ requests'[Len(requests')] = Appended
                 ELSE requests' = requests /\ IsPrefix(Appended, txt_buffer')
       /\ (llm_pc = "stream")
           => /\ IsPrefix(text_input, text_input')
              /\ requests' = requests
              /\ llm_pc' = "recv" => txt_buffer' = <<>> /\ elapsed' = 0]_vars

\* C18: when building the request or opening the response stream fails for
\* one Utterance, run_llm goes on: it is back at its receive with an empty
\* buffer, and the inputs queued behind the failing one are still there.
C18_UtteranceFailureRecovered ==
    [][(RecvStep /\ FlushCondition(Appended, elapsed) /\ ~Issues)
          => /\ llm_pc' = "recv"
             /\ text_input' = Tail(text_input)]_vars

\* C17: a message whose send fails because the receiving end is closed is
\* dropped; for the Speech Dispatcher this means that once a response item
\* has been handled with the receiver gone, no finished chunk is left in the
\* speech buffer to be sent again or to grow into a later chunk.
C17_FailedChunkDropped ==
    [][(llm_pc = "stream" /\ gpt_resp_stream # <<>> /\ ~tts_open
           /\ gpt_resp_stream' = Tail(gpt_resp_stream))
          => ~ends_with_splitter(tts_buffer')]_vars

\* a step in which on_text handles one text message
TextStep == texts_got' = texts_got + 1

\* C15: for a text message that parses and has a first-alternative
\* transcript, the string put on the accumulator's channel is that transcript,
\* character for character; for one without a transcript nothing is sent.
C15_TranscriptForwardedVerbatim ==
    [][(TextStep /\ from_str_Value_ok(ws_text'))
          => IF ws_text'.transcript # None
             THEN text_input' = Append(text_input, ws_text'.transcript[1])
             ELSE text_input' = text_input]_vars

\* C16: for a transcription text message that does not parse, on_text does
\* not fail, sends nothing to the accumulator and leaves the connection as
\* it is.
C16_MalformedTextDropped ==
    [][(TextStep /\ ~from_str_Value_ok(ws_text'))
          => /\ on_text_result' = "Ok"
             /\ text_input' = text_input
             /\ ws_state' = ws_state]_vars

\* C19: the buffers passed to ws_client.binary so far, followed by the
\* buffers still queued, are exactly the buffers produced, each once and in
\* the order queued (hence in the order each track produced them); a track's
\* send is always possible; and every queued buffer is eventually passed to
\* ws_client.binary, also after a call that failed.
C19_EachBufferHandedOnceInOrder ==
    /\ []([i \in 1..Len(binary_calls) |-> binary_calls[i].buf] \o stt_queue
             = [i \in 1..audio_made |-> i])
    /\ [](audio_made < MaxAudio => ENABLED (\E track \in Tracks : AudioFrame(track)))
    /\ \A b \in 1..MaxAudio :
          (b \in Range(stt_queue))
              ~> (\E i \in 1..Len(binary_calls) : binary_calls[i].buf = b)

C19_Witness ==
    /\ Len(binary_calls) = 2
    /\ ~binary_calls[1].ok
    /\ binary_calls[2].buf = 2
    /\ track_of[1] # track_of[2]

\* C20: once the sending side of its input channel is gone and what was
\* queued has been processed, each task leaves its loop: handle_room_events
\* returns, the forwarding task ends, and run_llm returns Ok.
C20_TasksEndWhenSendersGone ==
    /\ (~room_open) ~> (room_pc = "done")
    /\ stt_senders_gone ~> (fwd_pc = "done")
    /\ llm_senders_gone ~> (llm_pc = "done")

\* the concatenation of a sequence of strings
RECURSIVE Concat(_)
Concat(strs) == IF strs = <<>> THEN <<>> ELSE Head(strs) \o Concat(Tail(strs))

\* the contents of the choices of one response item, in order
RECURSIVE ContentsOf(_)
ContentsOf(choices) ==
    IF choices = <<>> THEN <<>>
    ELSE (IF Head(choices) = None THEN <<>> ELSE Head(choices)[1])
         \o ContentsOf(Tail(choices))

\* all the text a response stream delivered
RECURSIVE TokensOf(_)
TokensOf(items) ==
    IF items = <<>> THEN <<>>
    ELSE ContentsOf(Head(items).choices) \o TokensOf(Tail(items))

\* C21: when the stream of a response ends while the Speech Dispatcher
\* accepts chunks, the chunks sent for that response, put together, are the
\* text the response delivered: a tail that ends in no boundary character has
\* been sent as a last chunk. Stated for the first response, before which the
\* speech buffer is empty.
C21_AllResponseTextSent ==
    [][(llm_pc = "stream" /\ llm_pc' = "recv" /\ tts_open /\ Len(requests) = 1)
          => Concat(ChunksOfResponse') = TokensOf(resp_stream)]_vars

VerifiedRoomFinished(req) ==
    req.fault = "none" /\ req.has_room /\ req.event = "room_finished"

\* C22: once a room_finished webhook has been processed and no room_started
\* webhook has been received after it, the session-active flag is false, also
\* when a room_started handler received earlier was still awaiting
\* join_room_with_ai at that moment. Requests are received in index order.
C22_FlagStaysFalseAfterFinish ==
    \A i \in 1..MaxHooks :
        (/\ hooks[i].pc = "done"
         /\ VerifiedRoomFinished(hooks[i].req)
         /\ \A j \in (i + 1)..MaxHooks :
               ~(hooks[j].pc # "idle" /\ VerifiedRoomStarted(hooks[j].req)))
            => is_active = FALSE

====
